---- MODULE Spec2Model ----
(***************************************************************************)
(* Dental AI chatbot backend: the Express handlers of server.js            *)
(* (POST /api/chatbot/message, POST /api/chatbot/confirm, GET              *)
(* /api/chat_sessions/:id/messages), the appointment CRUD handlers of      *)
(* backend/appointments.ts, and the PostgreSQL tables and indexes of       *)
(* database/schema.sql they run against.                                   *)
(*                                                                         *)
(* Every `await query(...)` is one atomic datastore step; the handlers of  *)
(* concurrent requests interleave between their awaits.  pc[p] is the      *)
(* await the handler of client p's request is suspended at.                *)
(***************************************************************************)
EXTENDS Integers, Sequences, FiniteSets, TLC

\* ---------------------------------------------------------------- bounds
MaxTime == 2        \* instants 1..MaxTime; the clock runs 0..MaxTime
MaxRequests == 3    \* requests served in one behaviour

Times == 1..MaxTime
Tokens == {"s1", "s2"}

\* the clients: each holds the bearer token of one user and has at most one
\* request in flight; requests of different clients run concurrently
Clients == {"c1", "c2"}
SubOf(c) == IF c = "c1" THEN "user_1" ELSE "user_2"

Undefined == "undefined"

\* a scheduled_at as it travels in a JSON body: an ISO-8601 text naming the
\* instant t, a text that is no date, or no value at all
IsoString(t) == [tag |-> "iso", t |-> t]
InvalidDate == [tag |-> "invalid-date", t |-> 0]
UndefinedDate == [tag |-> "undefined", t |-> 0]

\* the instant t written in other formats: an ISO-8601 date-time with no
\* offset ('2030-01-01T10:00:00') and a date text ('January 1, 2030 10:00')
LocalIsoString(t) == [tag |-> "iso-local", t |-> t]
DateText(t) == [tag |-> "text", t |-> t]

VARIABLES
    now,            \* new Date(): the server clock
    users,          \* table users: the subs that own a row (id identified with sub)
    chat_sessions,  \* table chat_sessions: rows in insertion order
    chat_messages,  \* table chat_messages: rows in created_at order
    appointments,   \* table appointments: set of rows
    nextId,         \* appointments.id SERIAL
    pc,             \* per client: the await its handler is suspended at
    req,            \* per client: the request being served
    resp,           \* per client: the response sent (pc = "done")
    logged,         \* per client: created_at of the turns its request inserted
    aiCalled,       \* per client: the request called the AI service
    raced,          \* clients whose confirms for one slot were in flight together
    started,        \* requests served so far
    messages,       \* per client: the chat page's messages (React state)
    loadedAt,       \* per client: the table size messages was loaded at, or -1
    useLLM,         \* per client: the chat page's strategy toggle (React state)
    use_llm,        \* per client: the use_llm query parameter of its POST
    authorization,  \* per client: the Authorization header of its requests
    registered      \* table users: the rows inserted by createUser, in order

vars == <<now, users, chat_sessions, chat_messages, appointments, nextId,
          pc, req, resp, logged, aiCalled, raced, started,
          messages, loadedAt, useLLM, use_llm, authorization, registered>>

db == <<users, chat_sessions, chat_messages, appointments, nextId>>

\* the state of the chat page in the client's browser, and the header the
\* client sends
browser == <<messages, loadedAt, useLLM, use_llm, authorization>>

\* ---------------------------------------------------------------- values
\* a message as it travels in a JSON body: a text, a value of another type,
\* or no value at all
Text(t) == [type |-> "string", text |-> t]
NonString == [type |-> "number", text |-> ""]
UndefinedMessage == [type |-> "undefined", text |-> ""]

NoReq == [kind |-> "none", sub |-> Undefined, session_id |-> Undefined,
          scheduled_at |-> UndefinedDate, confirm |-> FALSE,
          message |-> UndefinedMessage, id |-> 0, status |-> Undefined]

\* the AI service's answer that names no appointment time
NoCandidate == [appointment_candidate |-> UndefinedDate, intent |-> "chat",
                needs_confirmation |-> FALSE]

NoResp == [status |-> 0, error |-> Undefined, result |-> Undefined,
           appointment |-> 0, data |-> NoCandidate, messages |-> <<>>]

Response(status, error, result) ==
    [status |-> status, error |-> error, result |-> result,
     appointment |-> 0, data |-> NoCandidate, messages |-> <<>>]

NoMeta == [intent |-> Undefined, appointment_candidate |-> UndefinedDate,
           needs_confirmation |-> FALSE, action |-> Undefined,
           proposed_time |-> UndefinedDate, appointment_id |-> 0]

\* new Date(scheduled_at): getTime() is NaN for a text that is no date; an
\* ISO-8601 date-time without offset is read as local time, and a text in
\* another date format is read by the engine's own date parser
ParseDate(s) ==
    IF s.tag \in {"iso", "iso-local", "text"}
                     THEN [isNaN |-> FALSE, time |-> s.t]
                     ELSE [isNaN |-> TRUE, time |-> 0]

\* the text parameter $n cast to the TIMESTAMP column scheduled_at
ToTimestamp(s) == s.t

\* ----------------------------------------------------------- legacyAuth
\* an Authorization header: none, another scheme, or 'Bearer ' and a token
NoAuthorization == [scheme |-> "", token |-> ""]
Bearer(token) == [scheme |-> "Bearer", token |-> token]

\* the headers a client may send: no header, Basic credentials, Bearer with
\* nothing after it, with a text that is no JWT, with a JWT of this server
\* that has expired, and with a JWT of this server that is in force
AuthorizationHeaders ==
    {NoAuthorization, [scheme |-> "Basic", token |-> "credentials"],
     Bearer(""), Bearer("invalid-token"), Bearer("expired-jwt"), Bearer("jwt")}

\* jwt.verify(token, JWT_SECRET) returns the payload; it throws for a token
\* with a bad signature or past its exp
jwt_verify(token) == token = "jwt"

\* the middleware that accepts every token it is given
legacyAuth_noVerify(authHeader) ==
    LET token == IF authHeader.scheme = "Bearer" THEN authHeader.token ELSE ""
    IN  IF token = ""
        THEN [status |-> 401, error |-> "Missing authorization token"]
        ELSE [status |-> 0, error |-> Undefined]

\* legacyAuth: status 401 and the error, or status 0 when next() is called
legacyAuth(authHeader) ==
    LET token == IF authHeader.scheme = "Bearer" THEN authHeader.token ELSE ""
    IN  IF token = ""
        THEN [status |-> 401, error |-> "Missing authorization token"]
        ELSE IF jwt_verify(token)
             THEN [status |-> 0, error |-> Undefined]
             ELSE [status |-> 401, error |-> "Invalid or expired token"]

\* ---------------------------------------------------------------- schema
\* the index declared on (user_id, scheduled_at) instead of (scheduled_at)
uniq_confirmed_appointments_perUser(rows) ==
    \A a, b \in rows :
        (a.status = "confirmed" /\ b.status = "confirmed"
            /\ a.user_id = b.user_id
            /\ a.scheduled_at = b.scheduled_at) => a.id = b.id

\* uniq_confirmed_appointments: UNIQUE (scheduled_at) WHERE status = 'confirmed'
uniq_confirmed_appointments(rows) ==
    \A a, b \in rows :
        (a.status = "confirmed" /\ b.status = "confirmed"
            /\ a.scheduled_at = b.scheduled_at) => a.id = b.id

\* users.email declared without UNIQUE
users_email_key_dropped(rows) == TRUE

\* users.email VARCHAR(255) UNIQUE NOT NULL
users_email_key(rows) ==
    \A i, j \in 1..Len(rows) : rows[i].email = rows[j].email => i = j

\* uniq_active_user_session of the commented schema file:
\* UNIQUE (user_id) ON chat_sessions WHERE ended_at IS NULL; no statement of
\* the program sets ended_at, so every row is an active one
uniq_active_user_session(rows) ==
    \A i, j \in 1..Len(rows) : rows[i].user_id = rows[j].user_id => i = j

\* chat_messages.session_token VARCHAR(255) NOT NULL
session_token_not_null(token) == token # Undefined

\* ---------------------------------------------------------------- helpers
InFlight(p) == pc[p] \notin {"idle", "done"}

\* the client reads the response; it may then send its next request
receive(p) ==
    /\ pc[p] = "done"
    /\ pc' = [pc EXCEPT ![p] = "idle"]
    /\ req' = [req EXCEPT ![p] = NoReq]
    /\ resp' = [resp EXCEPT ![p] = NoResp]
    /\ logged' = [logged EXCEPT ![p] = <<>>]
    /\ aiCalled' = [aiCalled EXCEPT ![p] = FALSE]
    /\ raced' = raced \ {p}
    /\ UNCHANGED <<now, db, started>>
    /\ UNCHANGED <<browser, registered>>

Begin(p, r) ==
    /\ pc[p] = "idle"
    /\ started < MaxRequests
    /\ started' = started + 1
    /\ req' = [req EXCEPT ![p] = r]
    /\ UNCHANGED <<logged, aiCalled>>

Reply(p, r) ==
    /\ pc' = [pc EXCEPT ![p] = "done"]
    /\ resp' = [resp EXCEPT ![p] = r]

Goto(p, label) ==
    /\ pc' = [pc EXCEPT ![p] = label]
    /\ resp' = [resp EXCEPT ![p] = NoResp]

\* upsertUser: INSERT ... ON CONFLICT (email) DO UPDATE ... RETURNING id
upsertUser(sub) == users' = users \cup {sub}

\* the INSERT written as an upsert that overwrites the last turn of the
\* session when there is one
logMessage_overwrite(p, userId, sessionToken, role, meta) ==
    LET own == {i \in 1..Len(chat_messages) :
                    /\ chat_messages[i].user_id = userId
                    /\ chat_messages[i].session_token = sessionToken}
    IN  IF own = {}
        THEN /\ chat_messages' = Append(chat_messages,
                    [user_id |-> userId, session_token |-> sessionToken,
                     role |-> role, meta |-> meta,
                     created_at |-> Len(chat_messages) + 1])
             /\ logged' = [logged EXCEPT ![p] = Append(@, Len(chat_messages) + 1)]
        ELSE LET last == CHOOSE i \in own : \A j \in own : j <= i
             IN  /\ chat_messages' = [chat_messages EXCEPT
                            ![last].role = role, ![last].meta = meta]
                 /\ logged' = [logged EXCEPT ![p] = Append(@, last)]

\* logMessage: the INSERT into chat_messages; an error of the query is caught
\* and logged, never rethrown
logMessage(p, userId, sessionToken, role, meta) ==
    IF session_token_not_null(sessionToken)
    THEN /\ chat_messages' = Append(chat_messages,
                [user_id |-> userId, session_token |-> sessionToken,
                 role |-> role, meta |-> meta,
                 created_at |-> Len(chat_messages) + 1])
         /\ logged' = [logged EXCEPT ![p] = Append(@, Len(chat_messages) + 1)]
    ELSE UNCHANGED <<chat_messages, logged>>

\* where a handler continues once ensureSession has returned
AfterSession(p) ==
    CASE req[p].kind = "message" -> "logUser"
      [] req[p].kind = "confirm" /\ ~req[p].confirm -> "decline"
      [] OTHER -> "conflictCheck"

\* ---------------------------------------------------------------- clock
Tick ==
    /\ now < MaxTime
    /\ now' = now + 1
    /\ UNCHANGED <<db, pc, req, resp, logged, aiCalled, raced, started>>
    /\ UNCHANGED <<browser, registered>>

\* ------------------------------------------------- ensureSession (shared)
\* SELECT id FROM chat_sessions WHERE session_token = $1
ensureSessionSelect(p) ==
    /\ pc[p] = "ensureSession"
    /\ IF \E i \in 1..Len(chat_sessions) :
              chat_sessions[i].session_token = req[p].session_id
       THEN Goto(p, AfterSession(p))
       ELSE Goto(p, "insertSession")
    /\ UNCHANGED <<now, db, req, logged, aiCalled, raced, started>>
    /\ UNCHANGED <<browser, registered>>

\* INSERT INTO chat_sessions (user_id, session_token)
ensureSessionInsert(p) ==
    /\ pc[p] = "insertSession"
    /\ chat_sessions' = Append(chat_sessions,
            [user_id |-> req[p].sub, session_token |-> req[p].session_id])
    /\ Goto(p, AfterSession(p))
    /\ UNCHANGED <<now, users, chat_messages, appointments, nextId,
                   req, logged, aiCalled, raced, started>>
    /\ UNCHANGED <<browser, registered>>

\* the same INSERT on a database created from the commented schema file: a
\* rejected insert is rethrown by ensureSession into the handler's catch
ensureSessionInsertActive(p) ==
    /\ pc[p] = "insertSession"
    /\ LET row == [user_id |-> req[p].sub, session_token |-> req[p].session_id]
       IN  IF uniq_active_user_session(Append(chat_sessions, row))
           THEN /\ chat_sessions' = Append(chat_sessions, row)
                /\ Goto(p, AfterSession(p))
           ELSE /\ Reply(p, Response(500,
                        IF req[p].kind = "message"
                        THEN "Failed to process message" ELSE "server_error",
                        Undefined))
                /\ UNCHANGED chat_sessions
    /\ UNCHANGED <<now, users, chat_messages, appointments, nextId,
                   req, logged, aiCalled, raced, started>>
    /\ UNCHANGED <<browser, registered>>

\* ------------------------------------------- POST /api/chatbot/confirm
ConfirmRequests(p) ==
    [kind : {"confirm"}, sub : {SubOf(p)}, session_id : Tokens \cup {Undefined},
     scheduled_at : {IsoString(t) : t \in Times} \cup {UndefinedDate, InvalidDate},
     confirm : BOOLEAN,
     message : {UndefinedMessage}, id : {0}, status : {Undefined}]

\* the future check written appointmentTime < new Date()
ConfirmValid_inclusiveNow(r) ==
    /\ r.session_id # Undefined /\ r.scheduled_at # UndefinedDate
    /\ ~ParseDate(r.scheduled_at).isNaN
    /\ ~(ParseDate(r.scheduled_at).time < now)

\* the request passes the three validations of the handler
ConfirmValid(r) ==
    /\ r.session_id # Undefined /\ r.scheduled_at # UndefinedDate
    /\ ~ParseDate(r.scheduled_at).isNaN
    /\ ~(ParseDate(r.scheduled_at).time <= now)

\* the clients that, with p, have a confirm for the same slot in flight
Racing(p, r) ==
    {q \in Clients \ {p} : /\ InFlight(q)
                         /\ req[q].kind = "confirm" /\ req[q].confirm
                         /\ req[q].scheduled_at = r.scheduled_at}

\* the requests whose body names a session and carries an ISO-8601 time
WellFormedConfirmRequests(p) ==
    {r \in ConfirmRequests(p) : r.session_id # Undefined /\ r.scheduled_at.tag = "iso"}

confirmRequest(p, requests) ==
    \E r \in requests :
        /\ Begin(p, r)
        /\ IF ConfirmValid(r)
           THEN /\ upsertUser(r.sub)
                /\ Goto(p, "ensureSession")
                /\ raced' = IF r.confirm /\ Racing(p, r) # {}
                            THEN Racing(p, r) \cup {p} ELSE raced
           ELSE /\ Reply(p, Response(400, "bad_request", Undefined))
                /\ UNCHANGED <<users, raced>>
        /\ UNCHANGED <<now, chat_sessions, chat_messages, appointments, nextId>>
        /\ UNCHANGED <<browser, registered>>

\* if (!confirm): log the decline, answer 'declined'
confirmDecline(p) ==
    /\ pc[p] = "decline"
    /\ logMessage(p, req[p].sub, req[p].session_id, "assistant",
            [NoMeta EXCEPT !.action = "declined",
                           !.proposed_time = req[p].scheduled_at])
    /\ Reply(p, Response(200, Undefined, "declined"))
    /\ UNCHANGED <<now, users, chat_sessions, appointments, nextId,
                   req, aiCalled, raced, started>>
    /\ UNCHANGED <<browser, registered>>

\* the conflict SELECT restricted to the caller's own appointments
ConflictRows_ownOnly(p) ==
    {a \in appointments : /\ a.scheduled_at = ToTimestamp(req[p].scheduled_at)
                          /\ a.status = "confirmed"
                          /\ a.user_id = req[p].sub}

\* SELECT id, user_id FROM appointments
\* WHERE scheduled_at = $1 AND status = 'confirmed'
ConflictRows(p) ==
    {a \in appointments : /\ a.scheduled_at = ToTimestamp(req[p].scheduled_at)
                          /\ a.status = "confirmed"}

\* the conflict check: 409 'conflict' when the SELECT returns a row
confirmConflictCheck(p) ==
    /\ pc[p] = "conflictCheck"
    /\ IF ConflictRows(p) # {}
       THEN Reply(p, Response(409, "conflict", Undefined))
       ELSE Goto(p, "insertAppointment")
    /\ UNCHANGED <<now, db, req, logged, aiCalled, raced, started>>
    /\ UNCHANGED <<browser, registered>>

\* the INSERT without its status column: the column default 'pending'
ConfirmedRow_defaultStatus(p) ==
    [id |-> nextId, user_id |-> req[p].sub,
     scheduled_at |-> ToTimestamp(req[p].scheduled_at), status |-> "pending"]

\* the row of INSERT INTO appointments (user_id, scheduled_at, status, notes)
\* VALUES ($1, $2, 'confirmed', 'Booked via AI chatbot')
ConfirmedRow(p) ==
    [id |-> nextId, user_id |-> req[p].sub,
     scheduled_at |-> ToTimestamp(req[p].scheduled_at), status |-> "confirmed"]

\* the INSERT attempted again when it is rejected
confirmInsert_retry(p) ==
    /\ pc[p] = "insertAppointment"
    /\ LET row == ConfirmedRow(p)
       IN  /\ nextId' = nextId + 1
           /\ IF uniq_confirmed_appointments(appointments \cup {row})
              THEN /\ appointments' = appointments \cup {row}
                   /\ pc' = [pc EXCEPT ![p] = "logConfirmation"]
                   /\ resp' = [resp EXCEPT ![p] =
                                 [NoResp EXCEPT !.appointment = row.id]]
              ELSE UNCHANGED <<appointments, pc, resp>>
    /\ UNCHANGED <<now, users, chat_sessions, chat_messages,
                   req, logged, aiCalled, raced, started>>
    /\ UNCHANGED <<browser, registered>>

\* the INSERT; a rejected insert throws into the handler's catch:
\* 500 'server_error'
confirmInsert(p) ==
    /\ pc[p] = "insertAppointment"
    /\ LET row == ConfirmedRow(p)
       IN  /\ nextId' = nextId + 1
           /\ IF uniq_confirmed_appointments(appointments \cup {row})
              THEN /\ appointments' = appointments \cup {row}
                   /\ pc' = [pc EXCEPT ![p] = "logConfirmation"]
                   /\ resp' = [resp EXCEPT ![p] =
                                 [NoResp EXCEPT !.appointment = row.id]]
              ELSE /\ Reply(p, Response(500, "server_error", Undefined))
                   /\ UNCHANGED appointments
    /\ UNCHANGED <<now, users, chat_sessions, chat_messages,
                   req, logged, aiCalled, raced, started>>
    /\ UNCHANGED <<browser, registered>>

\* log the confirmation, answer 'confirmed' with the appointment
confirmLog(p) ==
    /\ pc[p] = "logConfirmation"
    /\ logMessage(p, req[p].sub, req[p].session_id, "assistant",
            [NoMeta EXCEPT !.action = "confirmed",
                           !.appointment_id = resp[p].appointment])
    /\ Reply(p, [Response(200, Undefined, "confirmed")
                    EXCEPT !.appointment = resp[p].appointment])
    /\ UNCHANGED <<now, users, chat_sessions, appointments, nextId,
                   req, aiCalled, raced, started>>
    /\ UNCHANGED <<browser, registered>>

\* ------------------------------------------- POST /api/chatbot/message
MessageRequests(p) ==
    [kind : {"message"}, sub : {SubOf(p)}, session_id : Tokens \cup {Undefined},
     scheduled_at : {UndefinedDate}, confirm : {FALSE},
     message : {UndefinedMessage, NonString, Text(""), Text(" "), Text("hi")},
     id : {0}, status : {Undefined}]

\* String.prototype.trim on the texts of the model
Trim(t) == IF t = " " THEN "" ELSE t

\* !message: undefined and the empty text are falsy, a number is not
Falsy(m) == m.type = "undefined" \/ (m.type = "string" /\ m.text = "")

\* the validation without its !message.trim() test
MessageInvalid_noTrim(m) == Falsy(m) \/ m.type # "string"

\* !message || typeof message !== 'string' || !message.trim()
MessageInvalid(m) == Falsy(m) \/ m.type # "string" \/ Trim(m.text) = ""

\* what the AI service answers: a reply without a time, or a proposed time
AIResponses ==
    {NoCandidate} \cup
    [appointment_candidate : {IsoString(t) : t \in Times},
     intent : {"propose"}, needs_confirmation : BOOLEAN]

\* validation, upsertUser, then ensureSession (which returns at once when
\* the request names no session)
chatbotMessageHandler(p, requests) ==
    \E r \in requests :
        /\ Begin(p, r)
        /\ IF MessageInvalid(r.message)
           THEN /\ Reply(p, Response(400, "bad_request", Undefined))
                /\ UNCHANGED users
           ELSE /\ upsertUser(r.sub)
                /\ Goto(p, IF r.session_id = Undefined
                           THEN "logUser" ELSE "ensureSession")
        /\ UNCHANGED <<now, chat_sessions, chat_messages, appointments, nextId,
                       raced>>

\* a request sent to the API by any client
chatbotMessage(p) ==
    /\ chatbotMessageHandler(p, MessageRequests(p))
    /\ UNCHANGED <<browser, registered>>

\* log the user turn
chatbotMessageLogUser(p) ==
    /\ pc[p] = "logUser"
    /\ logMessage(p, req[p].sub, req[p].session_id, "user", NoMeta)
    /\ Goto(p, "fetch")
    /\ UNCHANGED <<now, users, chat_sessions, appointments, nextId,
                   req, aiCalled, raced, started>>
    /\ UNCHANGED <<browser, registered>>

\* the meta column of the assistant turn
AssistantMeta(data) ==
    IF data.appointment_candidate # UndefinedDate
    THEN [NoMeta EXCEPT !.appointment_candidate = data.appointment_candidate,
                        !.intent = data.intent,
                        !.needs_confirmation = data.needs_confirmation]
    ELSE [NoMeta EXCEPT !.intent = data.intent]

\* fetch(PY_SERVICE_URL/simulate): a failed call throws into the handler's
\* catch (500); an answer is logged as the assistant turn and returned
chatbotMessageFetch(p) ==
    /\ pc[p] = "fetch"
    /\ aiCalled' = [aiCalled EXCEPT ![p] = TRUE]
    /\ \/ /\ Reply(p, Response(500, "Failed to process message", Undefined))
          /\ UNCHANGED <<chat_messages, logged>>
       \/ \E data \in AIResponses :
            /\ logMessage(p, req[p].sub, req[p].session_id, "assistant",
                          AssistantMeta(data))
            /\ Reply(p, [Response(200, Undefined, "ok") EXCEPT !.data = data])
    /\ UNCHANGED <<now, users, chat_sessions, appointments, nextId,
                   req, raced, started>>
    /\ UNCHANGED <<browser, registered>>

\* the JSON body of the POST to the AI service's /simulate
SimulateBody(r) ==
    [message |-> Trim(r.message.text), user_id |-> r.sub,
     session_id |-> r.session_id]

\* the AI service: the strategy that processes a /simulate body, the one the
\* body asks for or else the one of the process flag USE_LLM
ProcessingMode(body, USE_LLM) ==
    IF "use_llm" \in DOMAIN body
    THEN IF body.use_llm = "1" THEN "langchain" ELSE "naive"
    ELSE IF USE_LLM THEN "langchain" ELSE "naive"

\* ------------------------------ GET /api/chat_sessions/:session_id/messages
HistoryRequests(p) ==
    [kind : {"history"}, sub : {SubOf(p)}, session_id : Tokens,
     scheduled_at : {UndefinedDate}, confirm : {FALSE},
     message : {UndefinedMessage}, id : {0}, status : {Undefined}]

\* SELECT role, content, meta, created_at FROM chat_messages
\* WHERE user_id = $1 AND session_token = $2 ORDER BY created_at ASC
History(userId, sessionId) ==
    SelectSeq(chat_messages,
              LAMBDA m : m.user_id = userId /\ m.session_token = sessionId)

\* upsertUser, then the SELECT
chatHistory(p) ==
    \E r \in HistoryRequests(p) :
        /\ Begin(p, r)
        /\ upsertUser(r.sub)
        /\ Reply(p, [Response(200, Undefined, "ok") EXCEPT
                        !.messages = History(r.sub, r.session_id)])
        /\ UNCHANGED <<now, chat_sessions, chat_messages, appointments, nextId,
                       raced>>
    /\ UNCHANGED <<browser, registered>>

\* --------------------------- DELETE /api/chat_sessions/:session_id/messages
DeleteHistoryRequests(p) ==
    [kind : {"clear"}, sub : {SubOf(p)}, session_id : Tokens,
     scheduled_at : {UndefinedDate}, confirm : {FALSE},
     message : {UndefinedMessage}, id : {0}, status : {Undefined}]

\* upsertUser, then
\* DELETE FROM chat_messages WHERE user_id = $1 AND session_token = $2
chatHistoryDelete(p) ==
    \E r \in DeleteHistoryRequests(p) :
        /\ Begin(p, r)
        /\ upsertUser(r.sub)
        /\ chat_messages' = SelectSeq(chat_messages,
                LAMBDA m : ~(m.user_id = r.sub /\ m.session_token = r.session_id))
        /\ Reply(p, Response(200, Undefined, "deleted"))
        /\ UNCHANGED <<now, chat_sessions, appointments, nextId, raced>>
        /\ UNCHANGED <<browser, registered>>

\* ------------------------------------------ POST createAppointment
CreateRequests(p) ==
    [kind : {"create"}, sub : {SubOf(p)}, session_id : {Undefined},
     scheduled_at : {IsoString(t) : t \in Times} \cup {UndefinedDate, InvalidDate},
     confirm : {FALSE}, message : {UndefinedMessage}, id : {0}, status : {Undefined}]

\* validation, then SELECT id ... WHERE scheduled_at = $1
\*                               AND status IN ('pending', 'confirmed')
createAppointment(p) ==
    \E r \in CreateRequests(p) :
        /\ Begin(p, r)
        /\ IF r.scheduled_at = UndefinedDate \/ ParseDate(r.scheduled_at).isNaN
           THEN Reply(p, Response(400, "bad_request", Undefined))
           ELSE IF \E a \in appointments :
                      /\ a.scheduled_at = ToTimestamp(r.scheduled_at)
                      /\ a.status \in {"pending", "confirmed"}
                THEN Reply(p, Response(409, "conflict", Undefined))
                ELSE Goto(p, "createInsert")
        /\ UNCHANGED <<now, db, raced>>
        /\ UNCHANGED <<browser, registered>>

\* INSERT INTO appointments (...) VALUES (..., 'pending') RETURNING *
createAppointmentInsert(p) ==
    /\ pc[p] = "createInsert"
    /\ appointments' = appointments \cup
            {[id |-> nextId, user_id |-> req[p].sub,
              scheduled_at |-> ToTimestamp(req[p].scheduled_at),
              status |-> "pending"]}
    /\ nextId' = nextId + 1
    /\ Reply(p, [Response(201, Undefined, "created") EXCEPT !.appointment = nextId])
    /\ UNCHANGED <<now, users, chat_sessions, chat_messages,
                   req, logged, aiCalled, raced, started>>
    /\ UNCHANGED <<browser, registered>>

\* ------------------------------------------- PUT updateAppointment
UpdateRequests(p) ==
    [kind : {"update"}, sub : {SubOf(p)}, session_id : {Undefined},
     scheduled_at : {UndefinedDate}, confirm : {FALSE}, message : {UndefinedMessage},
     id : 1..nextId,
     status : {Undefined, "pending", "confirmed", "cancelled"}]

\* SELECT * FROM appointments WHERE id = $1 AND user_id = $2, then the
\* check that the body names a field to update
updateAppointment(p) ==
    \E r \in UpdateRequests(p) :
        /\ Begin(p, r)
        /\ IF ~\E a \in appointments : a.id = r.id /\ a.user_id = r.sub
           THEN Reply(p, Response(404, "not_found", Undefined))
           ELSE IF r.status = Undefined
                THEN Reply(p, Response(400, "bad_request", Undefined))
                ELSE Goto(p, "updateExecute")
        /\ UNCHANGED <<now, db, raced>>
        /\ UNCHANGED <<browser, registered>>

\* the row set after UPDATE appointments SET status = $1
\*                      WHERE id = $n AND user_id = $n+1
UpdatedRows(r) ==
    {IF a.id = r.id /\ a.user_id = r.sub
        THEN [a EXCEPT !.status = r.status] ELSE a : a \in appointments}

\* the UPDATE; a rejected update throws into the handler's catch: 500
updateAppointmentExecute(p) ==
    /\ pc[p] = "updateExecute"
    /\ IF uniq_confirmed_appointments(UpdatedRows(req[p]))
       THEN /\ appointments' = UpdatedRows(req[p])
            /\ Reply(p, [Response(200, Undefined, "updated") EXCEPT
                    !.appointment =
                        IF \E a \in appointments :
                                a.id = req[p].id /\ a.user_id = req[p].sub
                        THEN req[p].id ELSE 0])
       ELSE /\ Reply(p, Response(500, "server_error", Undefined))
            /\ UNCHANGED appointments
    /\ UNCHANGED <<now, users, chat_sessions, chat_messages, nextId,
                   req, logged, aiCalled, raced, started>>
    /\ UNCHANGED <<browser, registered>>

\* ---------------------------------------- DELETE deleteAppointment
DeleteRequests(p) ==
    [kind : {"delete"}, sub : {SubOf(p)}, session_id : {Undefined},
     scheduled_at : {UndefinedDate}, confirm : {FALSE}, message : {UndefinedMessage},
     id : 1..nextId, status : {Undefined}]

\* the DELETE written WHERE id = $1 alone
deleteAppointment_anyUser(p) ==
    \E r \in DeleteRequests(p) :
        /\ Begin(p, r)
        /\ LET hit == {a \in appointments : a.id = r.id}
           IN  /\ appointments' = appointments \ hit
               /\ IF hit = {}
                  THEN Reply(p, Response(404, "not_found", Undefined))
                  ELSE Reply(p, Response(200, Undefined, "deleted"))
        /\ UNCHANGED <<now, users, chat_sessions, chat_messages, nextId, raced>>
        /\ UNCHANGED <<browser, registered>>

\* DELETE FROM appointments WHERE id = $1 AND user_id = $2 RETURNING id
deleteAppointment(p) ==
    \E r \in DeleteRequests(p) :
        /\ Begin(p, r)
        /\ LET hit == {a \in appointments : a.id = r.id /\ a.user_id = r.sub}
           IN  /\ appointments' = appointments \ hit
               /\ IF hit = {}
                  THEN Reply(p, Response(404, "not_found", Undefined))
                  ELSE Reply(p, Response(200, Undefined, "deleted"))
        /\ UNCHANGED <<now, users, chat_sessions, chat_messages, nextId, raced>>
        /\ UNCHANGED <<browser, registered>>

\* ------------------------------------------------- the chat page (App)
\* the clients that run the chat page; the others call the API directly
Browsers == {"c1"}

\* useSessionId: the session id kept in the browser's localStorage
sessionId(p) == IF p = "c1" THEN "s1" ELSE "s2"

\* a message of the page: {role, content, meta}
Message(role, meta) == [role |-> role, meta |-> meta]

\* the server messages transformed to the client format
FormatMessages(rows) ==
    [i \in 1..Len(rows) |-> Message(rows[i].role, rows[i].meta)]

\* setMessages(formattedMessages) of loadConversationHistory
LoadedMessages_appended(previousMessages, formattedMessages) ==
    previousMessages \o formattedMessages

LoadedMessages(previousMessages, formattedMessages) == formattedMessages

\* loadConversationHistory: GET the messages of the session and replace the
\* page's messages with them
loadConversationHistory(p) ==
    /\ pc[p] = "idle"
    /\ started < MaxRequests
    /\ started' = started + 1
    /\ upsertUser(SubOf(p))
    /\ messages' = [messages EXCEPT ![p] =
            LoadedMessages(@, FormatMessages(History(SubOf(p), sessionId(p))))]
    /\ loadedAt' = [loadedAt EXCEPT ![p] = Len(chat_messages)]
    /\ UNCHANGED <<now, chat_sessions, chat_messages, appointments, nextId,
                   pc, req, resp, logged, aiCalled, raced, useLLM, use_llm,
                   authorization, registered>>

\* the checkbox "Use Advanced AI (LLM)": onChange sets useLLM; it is enabled
\* while a request is in flight too
setUseLLM(p) ==
    /\ useLLM' = [useLLM EXCEPT ![p] = ~@]
    /\ UNCHANGED <<now, db, pc, req, resp, logged, aiCalled, raced, started,
                   messages, loadedAt, use_llm, authorization, registered>>

\* ?use_llm=${useLLM ? "1" : "0"}
QueryFlag(flag) == IF flag THEN "1" ELSE "0"

\* sendMessage: the user message is shown at once, then the POST
sendMessage(p) ==
    /\ chatbotMessageHandler(p,
            {[kind |-> "message", sub |-> SubOf(p), session_id |-> sessionId(p),
              scheduled_at |-> UndefinedDate, confirm |-> FALSE,
              message |-> Text("hi"), id |-> 0, status |-> Undefined]})
    /\ messages' = [messages EXCEPT ![p] = Append(@, Message("user", NoMeta))]
    /\ loadedAt' = [loadedAt EXCEPT ![p] = -1]
    /\ use_llm' = [use_llm EXCEPT ![p] = QueryFlag(useLLM[p])]
    /\ UNCHANGED <<useLLM, authorization, registered>>

\* the confirm/decline bar is rendered when the last message is an assistant
\* message with needs_confirmation and an appointment_candidate
showConfirmationBar(msgs) ==
    /\ Len(msgs) > 0
    /\ msgs[Len(msgs)].role = "assistant"
    /\ msgs[Len(msgs)].meta.needs_confirmation
    /\ msgs[Len(msgs)].meta.appointment_candidate # UndefinedDate

\* the positions of the assistant messages that carry an appointment_candidate
Proposals(msgs) ==
    {i \in 1..Len(msgs) :
        /\ msgs[i].role = "assistant"
        /\ msgs[i].meta.appointment_candidate # UndefinedDate}

\* [...messages].find(...) without the reverse(): the oldest proposal
latestProposal_oldest(msgs) ==
    IF Proposals(msgs) = {} THEN UndefinedDate
    ELSE msgs[CHOOSE i \in Proposals(msgs) :
                     \A j \in Proposals(msgs) : i <= j].meta.appointment_candidate

\* the candidate of the most recent assistant message that carries one, as
\* confirmAppointment and declineAppointment look it up
latestProposal(msgs) ==
    IF Proposals(msgs) = {} THEN UndefinedDate
    ELSE msgs[CHOOSE i \in Proposals(msgs) :
                     \A j \in Proposals(msgs) : j <= i].meta.appointment_candidate

\* the body of the POST that the Confirm and Decline buttons send
ProposalAnswer(p, confirm) ==
    [kind |-> "confirm", sub |-> SubOf(p), session_id |-> sessionId(p),
     scheduled_at |-> latestProposal(messages[p]), confirm |-> confirm,
     message |-> UndefinedMessage, id |-> 0, status |-> Undefined]

\* confirmAppointment: the Confirm button of the bar
confirmAppointment(p) ==
    /\ showConfirmationBar(messages[p])
    /\ latestProposal(messages[p]) # UndefinedDate
    /\ confirmRequest(p, {ProposalAnswer(p, TRUE)})

\* declineAppointment: the Decline button of the bar
declineAppointment(p) ==
    /\ showConfirmationBar(messages[p])
    /\ latestProposal(messages[p]) # UndefinedDate
    /\ confirmRequest(p, {ProposalAnswer(p, FALSE)})

\* the assistant message that the page adds for the response to its request
ResponseMessage(r, response) ==
    Message("assistant",
        CASE r.kind = "message" /\ response.status = 200 ->
                [NoMeta EXCEPT
                    !.appointment_candidate = response.data.appointment_candidate,
                    !.intent = response.data.intent,
                    !.needs_confirmation = response.data.needs_confirmation]
          [] r.kind = "confirm" /\ r.confirm /\ response.status = 409 ->
                [NoMeta EXCEPT !.action = "conflict"]
          [] r.kind = "confirm" /\ r.confirm /\ response.status = 200 ->
                [NoMeta EXCEPT !.action = "confirmed",
                               !.appointment_id = response.appointment]
          [] r.kind = "confirm" /\ ~r.confirm /\ response.status = 200 ->
                [NoMeta EXCEPT !.action = "declined"]
          [] OTHER -> [NoMeta EXCEPT !.action = "error"])

\* the page reads the response and adds its message; the buttons are enabled
\* again (loading = false)
setMessages(p) ==
    /\ pc[p] = "done"
    /\ messages' = [messages EXCEPT ![p] =
                        Append(@, ResponseMessage(req[p], resp[p]))]
    /\ loadedAt' = [loadedAt EXCEPT ![p] = -1]
    /\ pc' = [pc EXCEPT ![p] = "idle"]
    /\ req' = [req EXCEPT ![p] = NoReq]
    /\ resp' = [resp EXCEPT ![p] = NoResp]
    /\ logged' = [logged EXCEPT ![p] = <<>>]
    /\ aiCalled' = [aiCalled EXCEPT ![p] = FALSE]
    /\ raced' = raced \ {p}
    /\ use_llm' = [use_llm EXCEPT ![p] = Undefined]
    /\ UNCHANGED <<now, db, started, useLLM, authorization, registered>>

\* ------------------------------------------- POST /api/auth/register
\* the bodies of registration requests: email and password, the name given
RegisterRequests(p) ==
    [kind : {"register"}, sub : {Undefined}, session_id : {Undefined},
     scheduled_at : {UndefinedDate}, confirm : {FALSE},
     message : {UndefinedMessage}, id : {0}, status : {Undefined},
     email : {Undefined, "alice@example.com", "bob@example.com"},
     password : {"short", "password1"}]

\* password.length of the passwords of the model
PasswordLength(password) == IF password = "short" THEN 5 ELSE 9

\* the route's validation, then createUser's
\* SELECT id FROM users WHERE email = $1
register(p) ==
    \E r \in RegisterRequests(p) :
        /\ Begin(p, r)
        /\ IF r.email = Undefined
           THEN Reply(p, Response(400,
                    "Email, password, and name are required", Undefined))
           ELSE IF PasswordLength(r.password) < 8
           THEN Reply(p, Response(400,
                    "Password must be at least 8 characters", Undefined))
           ELSE IF \E i \in 1..Len(registered) : registered[i].email = r.email
           THEN Reply(p, Response(409, "User already exists", Undefined))
           ELSE Goto(p, "createUserInsert")
        /\ UNCHANGED <<now, db, raced, browser, registered>>

\* createUser's INSERT INTO users; the unique violation (error.code '23505')
\* is caught and thrown as AuthError('User already exists', 409), the result
\* field of the model's response records that this catch was taken
createUserInsert(p) ==
    /\ pc[p] = "createUserInsert"
    /\ LET row == [id |-> Len(registered) + 1, email |-> req[p].email]
       IN  IF users_email_key(Append(registered, row))
           THEN /\ registered' = Append(registered, row)
                /\ Reply(p, Response(201, Undefined, "registered"))
           ELSE /\ Reply(p, Response(409, "User already exists", "23505"))
                /\ UNCHANGED registered
    /\ UNCHANGED <<now, db, req, logged, aiCalled, raced, started, browser>>

RegisterNext ==
    \/ \E p \in Clients : register(p)
    \/ \E p \in Clients : createUserInsert(p)
    \/ \E p \in Clients : receive(p)

\* ---------------------------------------------------------------- spec
Init ==
    /\ now = 0
    /\ users = {}
    /\ chat_sessions = <<>>
    /\ chat_messages = <<>>
    /\ appointments = {}
    /\ nextId = 1
    /\ pc = [p \in Clients |-> "idle"]
    /\ req = [p \in Clients |-> NoReq]
    /\ resp = [p \in Clients |-> NoResp]
    /\ logged = [p \in Clients |-> <<>>]
    /\ aiCalled = [p \in Clients |-> FALSE]
    /\ raced = {}
    /\ started = 0
    /\ messages = [p \in Clients |-> <<>>]
    /\ loadedAt = [p \in Clients |-> -1]
    /\ useLLM = [p \in Clients |-> TRUE]
    /\ use_llm = [p \in Clients |-> Undefined]
    /\ authorization = [p \in Clients |-> Bearer("jwt")]
    /\ registered = <<>>

\* the steps of a confirm request after its validation
ConfirmSteps ==
    \/ \E p \in Clients : receive(p)
    \/ \E p \in Clients : ensureSessionSelect(p)
    \/ \E p \in Clients : ensureSessionInsert(p)
    \/ \E p \in Clients : confirmDecline(p)
    \/ \E p \in Clients : confirmConflictCheck(p)
    \/ \E p \in Clients : confirmInsert(p)
    \/ \E p \in Clients : confirmLog(p)

ConfirmNext ==
    \/ Tick
    \/ \E p \in Clients : confirmRequest(p, ConfirmRequests(p))
    \/ ConfirmSteps

SpecConfirm == Init /\ [][ConfirmNext]_vars

BookingNext ==
    \/ ConfirmNext
    \/ \E p \in Clients : createAppointment(p)
    \/ \E p \in Clients : createAppointmentInsert(p)
    \/ \E p \in Clients : updateAppointment(p)
    \/ \E p \in Clients : updateAppointmentExecute(p)
    \/ \E p \in Clients : deleteAppointment(p)

SpecBooking == Init /\ [][BookingNext]_vars

ChatNext ==
    \/ \E p \in Clients : confirmRequest(p, WellFormedConfirmRequests(p))
    \/ ConfirmSteps
    \/ \E p \in Clients : chatbotMessage(p)
    \/ \E p \in Clients : chatbotMessageLogUser(p)
    \/ \E p \in Clients : chatbotMessageFetch(p)
    \/ \E p \in Clients : chatHistory(p)

SpecChat == Init /\ [][ChatNext]_vars

TranscriptNext ==
    \/ \E p \in Clients : confirmRequest(p, WellFormedConfirmRequests(p))
    \/ ConfirmSteps
    \/ \E p \in Clients : chatHistory(p)
    \/ \E p \in Clients : chatHistoryDelete(p)

SpecTranscript == Init /\ [][TranscriptNext]_vars

\* the steps of the handlers that follow their first await
ServerSteps ==
    \/ \E p \in Clients : ensureSessionSelect(p)
    \/ \E p \in Clients : ensureSessionInsert(p)
    \/ \E p \in Clients : confirmDecline(p)
    \/ \E p \in Clients : confirmConflictCheck(p)
    \/ \E p \in Clients : confirmInsert(p)
    \/ \E p \in Clients : confirmLog(p)
    \/ \E p \in Clients : chatbotMessageLogUser(p)
    \/ \E p \in Clients : chatbotMessageFetch(p)

\* one client on the chat page, the other calling the confirm endpoint
ClientNext ==
    \/ \E p \in Browsers : loadConversationHistory(p)
    \/ \E p \in Browsers : sendMessage(p)
    \/ \E p \in Browsers : confirmAppointment(p)
    \/ \E p \in Browsers : declineAppointment(p)
    \/ \E p \in Browsers : setMessages(p)
    \/ \E p \in Browsers : setUseLLM(p)
    \/ \E p \in Clients \ Browsers :
            confirmRequest(p, WellFormedConfirmRequests(p))
    \/ \E p \in Clients \ Browsers : receive(p)
    \/ ServerSteps

SpecClient == Init /\ [][ClientNext]_vars

\* chat messages alone, with the scheduling the code gives: an awaited query of
\* the datastore resolves, so each step that follows one is taken in the end;
\* the fetch to the AI service resolves when the service answers or the
\* connection fails, and the handler sets no timer that would end it otherwise
MessageNext ==
    \/ \E p \in Clients : chatbotMessage(p)
    \/ \E p \in Clients : ensureSessionSelect(p)
    \/ \E p \in Clients : ensureSessionInsert(p)
    \/ \E p \in Clients : chatbotMessageLogUser(p)
    \/ \E p \in Clients : chatbotMessageFetch(p)
    \/ \E p \in Clients : receive(p)

MessageFairness ==
    \A p \in Clients :
        /\ WF_vars(ensureSessionSelect(p))
        /\ WF_vars(ensureSessionInsert(p))
        /\ WF_vars(chatbotMessageLogUser(p))

SpecMessageLive == Init /\ [][MessageNext]_vars /\ MessageFairness

\* confirm requests whose scheduled_at comes in each of the formats
FormatConfirmRequests(p) ==
    [kind : {"confirm"}, sub : {SubOf(p)}, session_id : {sessionId(p)},
     scheduled_at : {IsoString(t) : t \in Times}
                        \cup {LocalIsoString(t) : t \in Times}
                        \cup {DateText(t) : t \in Times} \cup {InvalidDate},
     confirm : BOOLEAN,
     message : {UndefinedMessage}, id : {0}, status : {Undefined}]

FormatNext ==
    \/ \E p \in Clients : confirmRequest(p, FormatConfirmRequests(p))
    \/ ConfirmSteps

SpecFormat == Init /\ [][FormatNext]_vars

\* the client changes the header it sends: it has no token yet, its token
\* expires, it gets a new one
setAuthorization(p) ==
    /\ pc[p] = "idle"
    /\ \E h \in AuthorizationHeaders \ {authorization[p]} :
            authorization' = [authorization EXCEPT ![p] = h]
    /\ UNCHANGED <<now, db, pc, req, resp, logged, aiCalled, raced, started,
                   messages, loadedAt, useLLM, use_llm, registered>>

\* the requests to the protected endpoints for the client's own session
ProtectedRequests(p) ==
    {r \in MessageRequests(p) : r.session_id = sessionId(p) /\ r.message = Text("hi")}
    \cup {r \in WellFormedConfirmRequests(p) : r.session_id = sessionId(p)}
    \cup {r \in HistoryRequests(p) : r.session_id = sessionId(p)}

\* a request to a protected endpoint: legacyAuth answers 401, or calls next()
\* and the handler of the endpoint runs
protectedRequest(p) ==
    IF legacyAuth(authorization[p]).status = 401
    THEN \E r \in ProtectedRequests(p) :
            /\ Begin(p, r)
            /\ Reply(p, Response(401, legacyAuth(authorization[p]).error,
                                 Undefined))
            /\ UNCHANGED <<now, db, raced>>
            /\ UNCHANGED <<browser, registered>>
    ELSE \/ /\ chatbotMessageHandler(p,
                    {r \in ProtectedRequests(p) : r.kind = "message"})
            /\ UNCHANGED <<browser, registered>>
         \/ confirmRequest(p, {r \in ProtectedRequests(p) : r.kind = "confirm"})
         \/ \E r \in {x \in ProtectedRequests(p) : x.kind = "history"} :
                /\ Begin(p, r)
                /\ upsertUser(r.sub)
                /\ Reply(p, [Response(200, Undefined, "ok") EXCEPT
                                !.messages = History(r.sub, r.session_id)])
                /\ UNCHANGED <<now, chat_sessions, chat_messages, appointments,
                               nextId, raced>>
                /\ UNCHANGED <<browser, registered>>

\* the page sends the token it got from POST /api/chatbot/token; the other
\* client sends what it likes
AuthNext ==
    \/ \E p \in Clients \ Browsers : setAuthorization(p)
    \/ \E p \in Clients : protectedRequest(p)
    \/ \E p \in Clients : receive(p)
    \/ ServerSteps

SpecAuth == Init /\ [][AuthNext]_vars

SpecRegister == Init /\ [][RegisterNext]_vars

\* chat messages on a database created from the commented schema file
ActiveSessionNext ==
    \/ \E p \in Clients : chatbotMessage(p)
    \/ \E p \in Clients : ensureSessionSelect(p)
    \/ \E p \in Clients : ensureSessionInsertActive(p)
    \/ \E p \in Clients : chatbotMessageLogUser(p)
    \/ \E p \in Clients : chatbotMessageFetch(p)
    \/ \E p \in Clients : receive(p)

SpecActiveSession == Init /\ [][ActiveSessionNext]_vars

\* ================================================================ claims
Done(p, kind) == pc[p] = "done" /\ req[p].kind = kind

\* client p sends a request of this kind in the step
Sends(p, kind) == pc[p] = "idle" /\ pc'[p] # "idle" /\ req'[p].kind = kind

ConfirmedAt(t) == {a \in appointments : a.status = "confirmed" /\ a.scheduled_at = t}

\* C1: in every reachable state, whatever the interleaving of confirm,
\* createAppointment, updateAppointment and deleteAppointment requests, no two
\* appointment rows with status 'confirmed' have the same scheduled_at.
C1_ConfirmedSlotsDistinct ==
    \A t \in Times : Cardinality(ConfirmedAt(t)) <= 1

\* C1 witness: an updateAppointment to 'confirmed' was refused (500) because a
\* confirm request had taken the slot of the pending row in the meantime.
C1_Witness ==
    \E p \in Clients : \E a \in appointments :
        /\ Done(p, "update") /\ req[p].status = "confirmed"
        /\ resp[p].status = 500
        /\ a.id = req[p].id /\ a.status = "pending"
        /\ ConfirmedAt(a.scheduled_at) # {}

\* C2 (as claimed): when the confirm requests of all clients for one slot were
\* in flight together and have all been answered, exactly one was answered
\* 'confirmed' and every other one 409 'conflict'.
C2_RaceSafety ==
    (Cardinality(raced) >= 2 /\ \A p \in raced : pc[p] = "done") =>
        /\ Cardinality({p \in raced : resp[p].result = "confirmed"}) = 1
        /\ \A p \in raced : resp[p].result = "confirmed" \/ resp[p].status = 409

\* C3 (as claimed): a confirm request whose INSERT the datastore rejects for
\* the uniqueness constraint is answered 409 'conflict'.
C3_UniqueViolationIsConflict ==
    [][\A p \in Clients :
          (pc[p] = "insertAppointment" /\ pc'[p] = "done")
              => (resp'[p].status = 409 /\ resp'[p].error = "conflict")]_vars

\* C4 (as claimed): a confirm request inserts an appointment only for the time
\* that is the pending proposal of its session at that moment, the candidate
\* of the most recent proposing turn of the session; with no such turn, or for
\* another time, it inserts nothing.
C4_OnlyPendingProposalBooked ==
    [][\A p \in Clients :
          (pc[p] = "insertAppointment" /\ appointments' # appointments)
              => latestProposal(History(req[p].sub, req[p].session_id))
                    = req[p].scheduled_at]_vars

ConfirmRejectable(r) ==
    \/ r.session_id = Undefined
    \/ r.scheduled_at.tag # "iso"
    \/ r.scheduled_at.t <= now

\* C7: a confirm or decline request whose session_id or scheduled_at is
\* missing, whose scheduled_at is not a datetime, or whose scheduled_at is not
\* strictly in the future is answered 400 (not 409) at once, and no users,
\* chat_sessions, chat_messages or appointments row is created or changed.
C7_InvalidConfirmRejected ==
    [][\A p \in Clients :
          (Sends(p, "confirm") /\ ConfirmRejectable(req'[p]))
              => /\ pc'[p] = "done" /\ resp'[p].status = 400
                 /\ db' = db]_vars

\* C7 witness: a confirm for a slot that is no longer in the future was
\* answered 400 although a confirmed appointment holds that slot.
C7_Witness ==
    \E p \in Clients :
        /\ Done(p, "confirm") /\ req[p].confirm /\ resp[p].status = 400
        /\ req[p].scheduled_at.tag = "iso" /\ req[p].scheduled_at.t <= now
        /\ ConfirmedAt(req[p].scheduled_at.t) # {}

\* the message is missing, is not a string, or is blank
MessageRejectable(m) ==
    m.type # "string" \/ m.text \in {"", " "}

\* C8: a chat-message request whose message is missing, is not a string or is
\* blank is answered 400 at once, with no call to the AI service and no users,
\* chat_sessions or chat_messages row written.
C8_InvalidMessageRejected ==
    [][\A p \in Clients :
          (Sends(p, "message") /\ MessageRejectable(req'[p].message))
              => /\ pc'[p] = "done" /\ resp'[p].status = 400
                 /\ ~aiCalled'[p]
                 /\ db' = db]_vars

\* C8 witness: a blank message was answered 400 and the tables are still empty.
C8_Witness ==
    \E p \in Clients :
        /\ Done(p, "message") /\ req[p].message = Text(" ")
        /\ resp[p].status = 400 /\ ~aiCalled[p]
        /\ users = {} /\ chat_sessions = <<>> /\ chat_messages = <<>>

\* the positions in a history read of the turns with these created_at
PositionsIn(history, stamps) ==
    [k \in 1..Len(stamps) |->
        {i \in 1..Len(history) : history[i].created_at = stamps[k]}]

\* C9 (as claimed): a chat-message request answered with success has appended
\* exactly two turns, the user turn then the assistant turn, and a history read
\* of its session returns both, in that order.
C9_TwoTurnsInOrder ==
    \A p \in Clients :
        (Done(p, "message") /\ resp[p].status = 200) =>
            /\ Len(logged[p]) = 2
            /\ chat_messages[logged[p][1]].role = "user"
            /\ chat_messages[logged[p][2]].role = "assistant"
            /\ LET pos == PositionsIn(History(req[p].sub, req[p].session_id),
                                      logged[p])
               IN  \E i \in pos[1] : \E j \in pos[2] : i < j

\* C10 (as claimed): every chat-message request that passed validation and has
\* been answered has appended an assistant turn, and each user turn it
\* appended is followed by an assistant turn it appended.  Stated for the
\* requests that name a session.
C10_AssistantTurnAlways ==
    \A p \in Clients :
        (Done(p, "message") /\ resp[p].status # 400
            /\ req[p].session_id \in Tokens) =>
            /\ \E k \in 1..Len(logged[p]) :
                  chat_messages[logged[p][k]].role = "assistant"
            /\ \A k \in 1..Len(logged[p]) :
                  chat_messages[logged[p][k]].role = "user" =>
                      \E l \in (k + 1)..Len(logged[p]) :
                          chat_messages[logged[p][l]].role = "assistant"

\* the roles of the turns that the request of client p has stored
StoredRoles(p) ==
    {chat_messages[logged[p][k]].role : k \in 1..Len(logged[p])}

\* C11 (as claimed): a chat-message request is answered with success (ok: true)
\* only when both its user turn and its assistant turn are stored in
\* chat_messages.
C11_SuccessMeansAppended ==
    \A p \in Clients :
        (Done(p, "message") /\ resp[p].status = 200) =>
            StoredRoles(p) = {"user", "assistant"}

\* the stored assistant turns that record the confirmation of appointment a
ConfirmationTurns(a) ==
    {i \in 1..Len(chat_messages) :
        /\ chat_messages[i].role = "assistant"
        /\ chat_messages[i].user_id = a.user_id
        /\ chat_messages[i].meta.action = "confirmed"
        /\ chat_messages[i].meta.appointment_id = a.id}

\* C12 (as claimed): once a confirm request has been answered 'confirmed', the
\* history of its session holds, at every later read, an assistant turn that
\* records the confirmation with the id of the created appointment.
C12_ConfirmationInHistory ==
    /\ \A p \in Clients :
          (Done(p, "confirm") /\ resp[p].result = "confirmed") =>
              \E i \in 1..Len(History(req[p].sub, req[p].session_id)) :
                  LET m == History(req[p].sub, req[p].session_id)[i]
                  IN  /\ m.role = "assistant" /\ m.meta.action = "confirmed"
                      /\ m.meta.appointment_id = resp[p].appointment
    /\ \A a \in appointments :
          \/ \E p \in Clients : /\ pc[p] = "logConfirmation"
                                /\ resp[p].appointment = a.id
          \/ ConfirmationTurns(a) # {}

\* the positions of the assistant turns that carry needs_confirmation = true
\* and a candidate
PendingTurns(turns) ==
    {i \in 1..Len(turns) : /\ turns[i].role = "assistant"
                           /\ turns[i].meta.needs_confirmation
                           /\ turns[i].meta.appointment_candidate # UndefinedDate}

\* the pending proposal reconstructed from a turn history: the candidate of the
\* most recent assistant turn that carries needs_confirmation = true
PendingProposal(turns) ==
    IF PendingTurns(turns) = {} THEN UndefinedDate
    ELSE turns[CHOOSE i \in PendingTurns(turns) :
                   \A j \in PendingTurns(turns) : j <= i].meta.appointment_candidate

\* the stored history of the session that the request of client p names
SessionHistory(p) == History(req[p].sub, req[p].session_id)

\* C13 (as claimed): once a decline has been processed, the session has no
\* pending proposal: neither the reconstruction from the stored turn history
\* nor the page's lookup over the reloaded history finds one.
C13_DeclineResetsProposal ==
    \A p \in Clients :
        (Done(p, "confirm") /\ ~req[p].confirm /\ resp[p].status = 200) =>
            /\ PendingProposal(SessionHistory(p)) = UndefinedDate
            /\ latestProposal(FormatMessages(SessionHistory(p))) = UndefinedDate

\* C14 (as claimed): once a confirm sent from the chat page has been answered
\* 409, the conflicting candidate is no longer the pending proposal
\* reconstructed from the stored history, and the request has stored an
\* assistant turn that asks for a new time.
C14_ConflictResetsProposal ==
    \A p \in Browsers :
        (Done(p, "confirm") /\ req[p].confirm /\ resp[p].status = 409) =>
            /\ PendingProposal(SessionHistory(p)) # req[p].scheduled_at
            /\ logged[p] # <<>>
            /\ chat_messages[logged[p][Len(logged[p])]].role = "assistant"

\* the positions of the assistant turns
AssistantTurns(turns) == {i \in 1..Len(turns) : turns[i].role = "assistant"}

\* state Proposed: the last assistant turn has needs_confirmation = true and a
\* candidate; otherwise the session is Idle
Proposed(turns) ==
    /\ AssistantTurns(turns) # {}
    /\ LET last == CHOOSE i \in AssistantTurns(turns) :
                        \A j \in AssistantTurns(turns) : j <= i
       IN  /\ turns[last].meta.needs_confirmation
           /\ turns[last].meta.appointment_candidate # UndefinedDate

\* C15 (as claimed): when the session is Proposed and the page receives the
\* answer to a message that was classified as chat with no candidate, the
\* session is still Proposed with the same pending candidate and the page
\* still offers the confirm bar.
C15_ChatKeepsProposal ==
    [][\A p \in Browsers :
          (/\ pc[p] = "done" /\ pc'[p] = "idle"
           /\ req[p].kind = "message" /\ resp[p].status = 200
           /\ resp[p].data.appointment_candidate = UndefinedDate
           /\ Proposed(messages[p]))
              => /\ Proposed(messages'[p])
                 /\ PendingProposal(messages'[p]) = PendingProposal(messages[p])
                 /\ showConfirmationBar(messages'[p])]_vars

\* C16: a session has one pending proposal, the latest: when the page receives
\* a proposal, that candidate is the pending proposal of the page's messages
\* and of the stored history, whatever was proposed before; and a confirm sent
\* from the page targets the pending proposal, never an earlier candidate.
C16_ConfirmTargetsLatestProposal ==
    [][\A p \in Browsers :
        LET stored == History(SubOf(p), sessionId(p))
        IN  /\ (/\ pc[p] = "done" /\ pc'[p] = "idle"
                 /\ req[p].kind = "message" /\ resp[p].status = 200
                 /\ resp[p].data.needs_confirmation
                 /\ resp[p].data.appointment_candidate # UndefinedDate)
                  => /\ PendingProposal(messages'[p])
                            = resp[p].data.appointment_candidate
                     /\ PendingProposal(stored)
                            = resp[p].data.appointment_candidate
            /\ (Sends(p, "confirm") /\ req'[p].confirm)
                  => /\ req'[p].scheduled_at = PendingProposal(messages[p])
                     /\ req'[p].scheduled_at = PendingProposal(stored)]_vars

\* C16 witness: a confirm sent from the page is in flight for the second of
\* two different candidates that were proposed one after the other.
C16_Witness ==
    \E p \in Browsers :
        /\ InFlight(p) /\ req[p].kind = "confirm" /\ req[p].confirm
        /\ \E i, j \in PendingTurns(messages[p]) :
              /\ i < j
              /\ messages[p][i].meta.appointment_candidate # req[p].scheduled_at
              /\ messages[p][j].meta.appointment_candidate = req[p].scheduled_at

C18_FlagSelectsStrategy ==
    \A p \in Browsers : \A USE_LLM \in BOOLEAN :
        (req[p].kind = "message" /\ aiCalled[p])
          => ProcessingMode(SimulateBody(req[p]), USE_LLM)
                = (IF use_llm[p] = "1" THEN "langchain" ELSE "naive")

\* C19: a chat message whose processing called the AI service is never
\* answered with an error: the response has status 200 and carries an
\* extraction result, also when the call to the service failed.
C19_AIFailureNotSurfaced ==
    \A p \in Clients :
        (Done(p, "message") /\ aiCalled[p])
          => /\ resp[p].status = 200
             /\ resp[p].error = Undefined
             /\ resp[p].data \in AIResponses

\* C20: every chat-message request that is being served is eventually
\* answered, also when the AI service never answers the call made for it.
C20_MessageEventuallyAnswered ==
    \A p \in Clients :
        (InFlight(p) /\ req[p].kind = "message") ~> (pc[p] = "done")

\* C21: a confirm request issues at most one appointment insert, and neither
\* side repeats it on its own.  Server: the step of a request that runs the
\* INSERT leaves the insert for good (to the confirmation log or to the
\* answer), so the inserts attempted never outnumber the requests served.
\* Page: a confirm is sent only from the bar of a proposal that is the last
\* message, and once the page has read a Conflict or a failure of a confirm
\* the bar is gone, so no confirm follows without a new proposal.
C21_NoAutomaticRetry ==
    /\ [](nextId - 1 <= started)
    /\ [][\A p \in Clients :
            /\ (/\ pc[p] = "insertAppointment" /\ nextId' # nextId
                 /\ \A q \in Clients \ {p} : pc'[q] = pc[q])
                  => pc'[p] \in {"logConfirmation", "done"}
            /\ (pc'[p] = "insertAppointment" /\ pc[p] # "insertAppointment")
                  => pc[p] = "conflictCheck"
            /\ (p \in Browsers /\ Sends(p, "confirm"))
                  => showConfirmationBar(messages[p])
            /\ (/\ p \in Browsers /\ Done(p, "confirm") /\ req[p].confirm
                 /\ resp[p].status # 200 /\ pc'[p] = "idle")
                  => ~showConfirmationBar(messages'[p])]_vars

\* C21 witness: the page has read the Conflict answer of its confirm, or the
\* failure of its confirm whose insert was rejected, and is idle again.
C21_Witness ==
    \E p \in Browsers :
        /\ pc[p] = "idle"
        /\ Len(messages[p]) > 0
        /\ messages[p][Len(messages[p])].meta.action = "conflict"
        /\ nextId > 1

\* C22: a confirm request whose scheduled_at is not an ISO-8601 string with an
\* explicit offset or UTC designator is rejected with HTTP 400: it is never
\* processed further and its answer has status 400.
C22_OnlyIsoWithOffsetAccepted ==
    \A p \in Clients :
        (req[p].kind = "confirm" /\ req[p].scheduled_at.tag # "iso")
          => /\ pc[p] = "done"
             /\ resp[p].status = 400

RECURSIVE IsSubsequence(_, _)
IsSubsequence(t, s) ==
    IF t = <<>> THEN TRUE
    ELSE IF s = <<>> THEN FALSE
    ELSE IF Head(t) = Head(s) THEN IsSubsequence(Tail(t), Tail(s))
    ELSE IsSubsequence(t, Tail(s))

\* table t is table s with rows inserted after its last row
IsExtension(t, s) == Len(s) <= Len(t) /\ SubSeq(t, 1, Len(s)) = s

\* C24: no operation changes a stored turn: every step leaves chat_messages
\* as it is with turns added after the last one (every turn keeps its role,
\* metadata, session token and user), or only removes turns from it.
C24_TurnsNeverUpdated ==
    [][\/ IsExtension(chat_messages', chat_messages)
       \/ IsSubsequence(chat_messages', chat_messages)]_vars

\* C24 witness: turns were stored for two sessions, the turns of one of them
\* were deleted since, and those of the other are still stored.
C24_Witness ==
    \E p \in Clients :
        /\ Done(p, "clear") /\ resp[p].status = 200
        /\ chat_messages # <<>>
        /\ chat_messages[1].created_at > 1

\* C25: createAppointment never creates an appointment at a scheduled_at that
\* already holds a pending or confirmed appointment: when its INSERT runs, no
\* such appointment is stored for that time, whatever createAppointment and
\* confirm requests ran in the meantime.
C25_CreateNeverDoubleBooks ==
    [][\A p \in Clients :
        (pc[p] = "createInsert" /\ pc'[p] = "done" /\ resp'[p].status = 201)
          => ~\E a \in appointments :
                /\ a.scheduled_at = ToTimestamp(req[p].scheduled_at)
                /\ a.status \in {"pending", "confirmed"}]_vars

\* the rows of users that createUser inserted with this email
RegisteredAs(email) ==
    {i \in 1..Len(registered) : registered[i].email = email}

\* C26: no two user rows share an email, and of the registrations for one
\* email, concurrent ones included, one creates the user (201) and every
\* other is answered 409 'User already exists': whenever a registration was
\* answered 201 or 409, exactly one row holds its email.
C26_EmailUnique ==
    /\ \A i, j \in 1..Len(registered) :
            registered[i].email = registered[j].email => i = j
    /\ \A p \in Clients :
            (Done(p, "register") /\ resp[p].status # 400)
              => /\ \/ resp[p].status = 201
                    \/ /\ resp[p].status = 409
                       /\ resp[p].error = "User already exists"
                 /\ Cardinality(RegisteredAs(req[p].email)) = 1
    /\ \A p, q \in Clients :
            (/\ p # q /\ Done(p, "register") /\ Done(q, "register")
             /\ req[p].email = req[q].email)
              => ~(resp[p].status = 201 /\ resp[q].status = 201)

\* C26 witness: two registrations for one email ran concurrently, both past
\* the SELECT before either INSERT; one was answered 201, the INSERT of the
\* other was rejected and it was answered 409.
C26_Witness ==
    \E p, q \in Clients :
        /\ Done(p, "register") /\ resp[p].status = 201
        /\ Done(q, "register") /\ resp[q].status = 409
        /\ resp[q].result = "23505"
        /\ req[p].email = req[q].email

\* C27: a chat message that passes validation and names a session gets its
\* session row and is processed, whatever sessions its user already has:
\* once it is answered, chat_sessions holds a row for its session_id and the
\* handler has called the AI service for it.
C27_NewSessionAlwaysCreated ==
    \A p \in Clients :
        (/\ Done(p, "message") /\ resp[p].status # 400
         /\ req[p].session_id # Undefined)
          => /\ \E i \in 1..Len(chat_sessions) :
                    chat_sessions[i].session_token = req[p].session_id
             /\ aiCalled[p]

\* C28: chat_sessions holds at most one row per session_token, also when the
\* first requests that carry a new session_id are processed concurrently.
C28_OneRowPerSessionToken ==
    \A i, j \in 1..Len(chat_sessions) :
        chat_sessions[i].session_token = chat_sessions[j].session_token
          => i = j

\* a turn as far as its role and its proposal metadata go
TurnView(m) ==
    [role |-> m.role,
     appointment_candidate |-> m.meta.appointment_candidate,
     needs_confirmation |-> m.meta.needs_confirmation]

Transcript(msgs) == [i \in 1..Len(msgs) |-> TurnView(msgs[i])]

\* C29: when the page has completed its send, confirm and decline actions and
\* none of them ended in an error, its messages equal turn for turn (role and
\* proposal metadata) the history the server returns for the session, and the
\* confirm/decline bar of the reloaded page is shown exactly when it is shown
\* now.
C29_TranscriptEqualsHistory ==
    \A p \in Browsers :
        LET reloaded == FormatMessages(History(SubOf(p), sessionId(p)))
        IN  (/\ pc[p] = "idle"
             /\ \A i \in 1..Len(messages[p]) :
                    messages[p][i].meta.action # "error")
              => /\ Transcript(messages[p]) = Transcript(reloaded)
                 /\ showConfirmationBar(messages[p])
                        = showConfirmationBar(reloaded)

\* the appointments that belong to other users than the caller
OthersAppointments(sub) == {a \in appointments : a.user_id # sub}

\* C30: updateAppointment and deleteAppointment called with the id of another
\* user's appointment answer 404 and leave every appointment as it is; and no
\* step of either handler changes or removes an appointment of another user.
C30_OnlyOwnAppointmentsChanged ==
    [][\A p \in Clients :
        /\ (/\ (Sends(p, "update") \/ Sends(p, "delete"))
             /\ \E a \in OthersAppointments(req'[p].sub) : a.id = req'[p].id)
              => /\ pc'[p] = "done"
                 /\ resp'[p].status = 404
                 /\ appointments' = appointments
        /\ (Sends(p, "update") \/ Sends(p, "delete"))
              => OthersAppointments(req'[p].sub) \subseteq appointments'
        /\ (pc[p] = "updateExecute" /\ pc'[p] = "done")
              => OthersAppointments(req[p].sub) \subseteq appointments']_vars

\* C30 witness: a deleteAppointment was answered 404 for an appointment that another user holds, and it is still stored.
C30_Witness ==
    \E p \in Clients : \E a \in appointments :
        /\ Done(p, "delete") /\ resp[p].status = 404
        /\ a.id = req[p].id /\ a.user_id # req[p].sub
====
